---- MODULE Spec2Model ----
(***************************************************************************)
(* Study-RAG: the quiz response normaliser (parse_quiz_response), the      *)
(* generation calls that decode the Model Provider's reply                 *)
(* (generate_summary, generate_quiz, generate_coding_questions) and the    *)
(* interactive quiz form with its grading loop                             *)
(* (display_interactive_quiz_with_form), as one Streamlit session.         *)
(*                                                                         *)
(* Python values are tagged records [tg, vl]:                              *)
(*   tg = "null"  None               tg = "int"   an integer               *)
(*   tg = "str"   a short string     tg = "list"  a list (vl a sequence)   *)
(*   tg = "dict"  a dict (vl a function from key strings to values)        *)
(*   tg = "text"  a string holding a document (vl its tokens)              *)
(* The tag is the first field, so values of different kinds compare        *)
(* unequal without their contents being compared.                          *)
(***************************************************************************)
EXTENDS Integers, Sequences, FiniteSets, TLC

(***************************************************************************)
(* Bounds of the model.                                                    *)
(***************************************************************************)
\* Longest quiz (number of question records in a reply).
MaxQuestions == 2
\* correct_answer ranges over -(MaxIndex + 1) .. MaxIndex.
MaxIndex == 4
\* A reply cut short loses 1 .. MaxCut of its last tokens.
MaxCut == 2
MaxModels == 2

(***************************************************************************)
(* Python values.                                                          *)
(***************************************************************************)
PyNone == [tg |-> "null", vl |-> "null"]
PyInt(n) == [tg |-> "int", vl |-> n]
PyStr(s) == [tg |-> "str", vl |-> s]
PyList(s) == [tg |-> "list", vl |-> s]
PyDict(f) == [tg |-> "dict", vl |-> f]
PyText(toks) == [tg |-> "text", vl |-> toks]
EmptyList == PyList(<<>>)
EmptyDict == PyDict(<<>>)

(***************************************************************************)
(* JSON text as a sequence of tokens [tk, lx]: punctuation, string         *)
(* literals, integer literals and bare words (null, or prose that is not   *)
(* JSON).                                                                  *)
(***************************************************************************)
Punct(p) == [tk |-> "punct", lx |-> p]
StrTok(s) == [tk |-> "str", lx |-> s]
NumTok(n) == [tk |-> "num", lx |-> n]
WordTok(w) == [tk |-> "word", lx |-> w]

\* The order in which an encoder writes the keys of an object.
KeyOrder == <<"questions", "question", "options", "correct_answer", "explanation",
              "summary", "other">>

RECURSIVE Dumps(_)
RECURSIVE DumpItems(_, _)
RECURSIVE DumpMembers(_, _)
\* The JSON text of a value, as the provider writes it.
Dumps(x) ==
    CASE x.tg = "null" -> <<WordTok("null")>>
      [] x.tg = "int"  -> <<NumTok(x.vl)>>
      [] x.tg = "str"  -> <<StrTok(x.vl)>>
      [] x.tg = "list" -> <<Punct("[")>> \o DumpItems(x.vl, 1) \o <<Punct("]")>>
      [] x.tg = "dict" -> <<Punct("{")>> \o DumpMembers(x.vl, 1) \o <<Punct("}")>>
DumpItems(s, i) ==
    IF i > Len(s) THEN <<>>
    ELSE Dumps(s[i]) \o (IF i < Len(s) THEN <<Punct(",")>> ELSE <<>>) \o DumpItems(s, i + 1)
DumpMembers(f, i) ==
    IF i > Len(KeyOrder) THEN <<>>
    ELSE IF KeyOrder[i] \notin DOMAIN f THEN DumpMembers(f, i + 1)
    ELSE LET rest == DumpMembers(f, i + 1)
         IN  <<StrTok(KeyOrder[i]), Punct(":")>> \o Dumps(f[KeyOrder[i]])
                 \o (IF rest = <<>> THEN <<>> ELSE <<Punct(",")>> \o rest)

(***************************************************************************)
(* json.loads: a recursive-descent decoder over the tokens.  A result is   *)
(* [ok, val, pos]: pos is the first token not consumed.                    *)
(***************************************************************************)
DecodeError == [ok |-> FALSE, val |-> PyNone, pos |-> 0]
Decoded(x, p) == [ok |-> TRUE, val |-> x, pos |-> p]
IsPunct(toks, i, p) == i <= Len(toks) /\ toks[i].tk = "punct" /\ toks[i].lx = p

RECURSIVE ParseValue(_, _)
RECURSIVE ParseItems(_, _, _)
RECURSIVE ParseMembers(_, _, _)
ParseValue(toks, i) ==
    IF i > Len(toks) THEN DecodeError
    ELSE LET tok == toks[i] IN
         CASE tok.tk = "num" -> Decoded(PyInt(tok.lx), i + 1)
           [] tok.tk = "str" -> Decoded(PyStr(tok.lx), i + 1)
           [] tok.tk = "word" -> IF tok.lx = "null" THEN Decoded(PyNone, i + 1) ELSE DecodeError
           [] tok.tk = "punct" ->
                IF tok.lx = "[" THEN
                    IF IsPunct(toks, i + 1, "]") THEN Decoded(EmptyList, i + 2)
                    ELSE ParseItems(toks, i + 1, <<>>)
                ELSE IF tok.lx = "{" THEN
                    IF IsPunct(toks, i + 1, "}") THEN Decoded(EmptyDict, i + 2)
                    ELSE ParseMembers(toks, i + 1, <<>>)
                ELSE DecodeError
\* The items of an array after "[" or ",": a value, then "," or "]".
ParseItems(toks, i, acc) ==
    LET r == ParseValue(toks, i) IN
    IF ~r.ok THEN DecodeError
    ELSE IF IsPunct(toks, r.pos, ",") THEN ParseItems(toks, r.pos + 1, Append(acc, r.val))
    ELSE IF IsPunct(toks, r.pos, "]") THEN Decoded(PyList(Append(acc, r.val)), r.pos + 1)
    ELSE DecodeError
\* The members of an object after "{" or ",": a string key, ":", a value,
\* then "," or "}".  A repeated key keeps its last value.
ParseMembers(toks, i, acc) ==
    IF ~(i <= Len(toks) /\ toks[i].tk = "str" /\ IsPunct(toks, i + 1, ":")) THEN DecodeError
    ELSE LET r == ParseValue(toks, i + 2) IN
         IF ~r.ok THEN DecodeError
         ELSE LET key == toks[i].lx
                  acc2 == [m \in (DOMAIN acc) \cup {key} |-> IF m = key THEN r.val ELSE acc[m]]
              IN  IF IsPunct(toks, r.pos, ",") THEN ParseMembers(toks, r.pos + 1, acc2)
                  ELSE IF IsPunct(toks, r.pos, "}") THEN Decoded(PyDict(acc2), r.pos + 1)
                  ELSE DecodeError
\* json.loads(text): one value and nothing after it, else JSONDecodeError.
json_loads(toks) ==
    LET r == ParseValue(toks, 1) IN
    IF r.ok /\ r.pos = Len(toks) + 1 THEN r ELSE DecodeError

(***************************************************************************)
(* The replies of the Model Provider: question records, quizzes, the JSON  *)
(* documents that carry them and the texts that encode those documents,    *)
(* whole, cut short or wrapped in prose.                                   *)
(***************************************************************************)
\* Marks a key the record does not have.
Absent == [tg |-> "absent", vl |-> "absent"]
Options4 == <<PyStr("3"), PyStr("4"), PyStr("5"), PyStr("6")>>
OptionsDup == <<PyStr("4"), PyStr("4"), PyStr("5"), PyStr("6")>>
Options3 == <<PyStr("3"), PyStr("4"), PyStr("5")>>
QuestionTexts == {Absent, PyStr(""), PyStr("2+2?")}
OptionLists == {Absent, PyList(Options4), PyList(OptionsDup), PyList(Options3)}
AnswerIndices == {Absent, PyStr("1")} \cup {PyInt(n) : n \in (0 - (MaxIndex + 1))..MaxIndex}
Explanations == {Absent, PyStr("because")}

\* A question record: a dict with the keys that are not Absent.
MkRecord(q, o, c, e) ==
    LET f == [question |-> q, options |-> o, correct_answer |-> c, explanation |-> e]
    IN  PyDict([key \in {m \in DOMAIN f : f[m] # Absent} |-> f[key]])

AllRecords ==
    {MkRecord(q, o, c, e) : q \in QuestionTexts, o \in OptionLists,
                            c \in AnswerIndices, e \in Explanations}
\* The records of the quizzes of two or more questions.
CoreRecords ==
    {MkRecord(PyStr("2+2?"), PyList(Options4), PyInt(2), Absent),
     MkRecord(PyStr("2+2?"), PyList(OptionsDup), PyInt(1), Absent),
     MkRecord(PyStr("2+2?"), PyList(Options4), PyInt(MaxIndex), Absent)}

Quizzes ==
    {<<>>} \cup {<<r>> : r \in AllRecords}
           \cup UNION {[1..n -> CoreRecords] : n \in 2..MaxQuestions}

\* The document generate_quiz asks for: {"questions": [...]}.
QuestionsDoc(quiz) == PyDict([questions |-> PyList(quiz)])
SummaryDoc == PyDict([summary |-> PyStr("text")])

ReplyValues ==
    {QuestionsDoc(quiz) : quiz \in Quizzes} \cup {PyList(quiz) : quiz \in Quizzes}
        \cup {EmptyDict, SummaryDoc, PyDict([questions |-> PyNone]), PyNone, PyInt(1)}

\* The text without its last n tokens.
CutShort(toks, n) == SubSeq(toks, 1, Len(toks) - n)
NotJson == <<WordTok("not"), WordTok("json")>>
\* Replies that are JSON documents.
ValidTexts == {Dumps(x) : x \in ReplyValues}
\* Replies that are not: cut short, led by prose, or prose alone.
MalformedTexts ==
    {CutShort(Dumps(x), n) : x \in ReplyValues, n \in 1..MaxCut}
        \cup {<<WordTok("Sure")>> \o Dumps(x) : x \in ReplyValues}
        \cup {NotJson}
ReplyTexts == ValidTexts \cup MalformedTexts

\* What a caller may hand to parse_quiz_response.
RawResponses ==
    {PyText(toks) : toks \in ReplyTexts} \cup ReplyValues

(***************************************************************************)
(* What a call gives back: the value returned, the diagnostics shown with  *)
(* st.error, and the exception that leaves the function ("none": it        *)
(* returned).                                                              *)
(***************************************************************************)
Returned(x) == [ret |-> x, reported |-> <<>>, raised |-> "none"]
Reported(x, msg) == [ret |-> x, reported |-> <<msg>>, raised |-> "none"]
Raised(exc) == [ret |-> PyNone, reported |-> <<>>, raised |-> exc]

\* dict.get(key, default)
DictGet(d, key, default) == IF key \in DOMAIN d.vl THEN d.vl[key] ELSE default

\* A list branch that keeps only the records with a question.
HasQuestion(r) == r.tg = "dict" /\ "question" \in DOMAIN r.vl
FromListFiltered(raw_response) == Returned(PyList(SelectSeq(raw_response.vl, HasQuestion)))
\* isinstance(raw_response, list): returned as it is.
FromList(raw_response) == Returned(raw_response)

\* A text branch with no handler for JSONDecodeError.
FromTextUnhandled(raw_response) ==
    LET r == json_loads(raw_response.vl)
    IN  IF r.ok THEN Returned(r.val) ELSE Raised("JSONDecodeError")
\* isinstance(raw_response, str): json.loads, and on JSONDecodeError one
\* st.error and the empty list.
FromText(raw_response) ==
    LET r == json_loads(raw_response.vl)
    IN  IF r.ok THEN Returned(r.val) ELSE Reported(EmptyList, "JSONDecodeError")

\* A dict branch that subscripts: raw_response['questions'], whose KeyError
\* the last handler reports.
FromDictSubscript(raw_response) ==
    IF "questions" \in DOMAIN raw_response.vl THEN Returned(raw_response.vl["questions"])
    ELSE Reported(EmptyList, "Error")
\* isinstance(raw_response, dict): raw_response.get('questions', []).
FromDict(raw_response) == Returned(DictGet(raw_response, "questions", EmptyList))

parse_quiz_response(raw_response) ==
    IF raw_response.tg = "list" THEN FromList(raw_response)
    ELSE IF raw_response.tg = "text" THEN FromText(raw_response)
    ELSE IF raw_response.tg = "dict" THEN FromDict(raw_response)
    ELSE Reported(EmptyList, "Unexpected response type")

\* The decoding step shared by the generation calls: json.loads of the
\* reply, its JSONDecodeError not handled.
DecodeReply(content) ==
    LET r == json_loads(content)
    IN  IF r.ok THEN Returned(r.val) ELSE Raised("JSONDecodeError")

\* generate_summary and generate_coding_questions return the decoded reply.
generate_summary(content) == DecodeReply(content)
generate_coding_questions(content) == DecodeReply(content)

\* generate_quiz returns result.get('questions', []) of the decoded reply.
generate_quiz(content) ==
    LET r == DecodeReply(content)
    IN  IF r.raised # "none" THEN r
        ELSE IF r.ret.tg = "dict" THEN Returned(DictGet(r.ret, "questions", EmptyList))
        ELSE Raised("AttributeError")

(***************************************************************************)
(* Python's subscripting and iteration, as the quiz form uses them.        *)
(***************************************************************************)
\* The KeyError of a missing key.
KeyError(key) ==
    CASE key = "question" -> "KeyError: 'question'"
      [] key = "options" -> "KeyError: 'options'"
      [] key = "correct_answer" -> "KeyError: 'correct_answer'"
      [] OTHER -> "KeyError"

\* d[key]: [ok, val, exc].
Subscript(d, key) ==
    IF d.tg # "dict" THEN [ok |-> FALSE, val |-> PyNone, exc |-> "TypeError"]
    ELSE IF key \notin DOMAIN d.vl THEN [ok |-> FALSE, val |-> PyNone, exc |-> KeyError(key)]
    ELSE [ok |-> TRUE, val |-> d.vl[key], exc |-> "none"]

\* l[i] for a list l: an index from -len(l) to len(l) - 1, counted from the
\* end when negative.
ListIndex(l, i) ==
    LET n == Len(l.vl) IN
    IF l.tg # "list" \/ i.tg # "int" THEN [ok |-> FALSE, val |-> PyNone, exc |-> "TypeError"]
    ELSE IF 0 <= i.vl /\ i.vl < n THEN [ok |-> TRUE, val |-> l.vl[i.vl + 1], exc |-> "none"]
    ELSE IF 0 - n <= i.vl /\ i.vl < 0 THEN [ok |-> TRUE, val |-> l.vl[n + i.vl + 1], exc |-> "none"]
    ELSE [ok |-> FALSE, val |-> PyNone, exc |-> "IndexError"]

RECURSIVE KeysFrom(_, _)
KeysFrom(f, i) ==
    IF i > Len(KeyOrder) THEN <<>>
    ELSE (IF KeyOrder[i] \in DOMAIN f THEN <<PyStr(KeyOrder[i])>> ELSE <<>>) \o KeysFrom(f, i + 1)

\* What enumerate(x) yields: the items of a list, the keys of a dict.
\* [ok, items]: None and integers are not iterable.
Enumerate(x) ==
    IF x.tg = "list" THEN [ok |-> TRUE, items |-> x.vl]
    ELSE IF x.tg = "dict" THEN [ok |-> TRUE, items |-> KeysFrom(x.vl, 1)]
    ELSE [ok |-> FALSE, items |-> <<>>]

(***************************************************************************)
(* display_interactive_quiz_with_form: the loop that renders one radio per *)
(* question, and the grading loop run when the form is submitted.          *)
(***************************************************************************)
\* The rendering loop from item idx (0-based) on: [rendered, raised], the
\* number of radios drawn and the exception that stopped the loop.
RECURSIVE RenderFrom(_, _)
RenderFrom(items, idx) ==
    IF idx >= Len(items) THEN [rendered |-> idx, raised |-> "none"]
    ELSE LET question_data == items[idx + 1]
             q == Subscript(question_data, "question")
             o == Subscript(question_data, "options")
         IN  IF ~q.ok THEN [rendered |-> idx, raised |-> q.exc]
             ELSE IF ~o.ok THEN [rendered |-> idx, raised |-> o.exc]
             ELSE RenderFrom(items, idx + 1)

\* The rendering loop of a run of the form.
Render(data) ==
    LET e == Enumerate(data)
    IN  IF e.ok THEN RenderFrom(e.items, 0) ELSE [rendered |-> 0, raised |-> "TypeError"]

\* What the grading loop shows for one question.
Verdict(idx, question_data, is_correct, correct_answer) ==
    [index |-> idx, is_correct |-> is_correct, correct_option_text |-> correct_answer,
     explanation |-> DictGet(question_data, "explanation", PyNone)]

\* A lookup that fails for a question with no answer chosen.
AnswerRequired(answers, idx) ==
    IF idx \in DOMAIN answers /\ answers[idx] # PyNone
    THEN [ok |-> TRUE, val |-> answers[idx], exc |-> "none"]
    ELSE [ok |-> FALSE, val |-> PyNone, exc |-> "KeyError"]
\* selected_answers.get(idx): None when idx is missing.
UserAnswer(answers, idx) ==
    [ok |-> TRUE, val |-> IF idx \in DOMAIN answers THEN answers[idx] ELSE PyNone,
     exc |-> "none"]

\* The 0-based position of the first option equal to x, -1 when none is.
FirstIndex(options, x) ==
    IF \E k \in DOMAIN options.vl : options.vl[k] = x
    THEN (CHOOSE k \in DOMAIN options.vl :
            options.vl[k] = x /\ \A j \in 1..(k - 1) : options.vl[j] # x) - 1
    ELSE 0 - 1
\* A comparison of positions: options.index(user_answer) == correct_index.
AnswerMatchesByIndex(user_answer, correct_answer, options, correct_index) ==
    FirstIndex(options, user_answer) = correct_index.vl
\* user_answer == correct_answer: the texts are compared.
AnswerMatches(user_answer, correct_answer, options, correct_index) ==
    user_answer = correct_answer

\* The grading loop from item idx (0-based) on, with the count and the
\* verdicts so far: [correct_count, per_question, raised].
RECURSIVE GradeFrom(_, _, _, _, _)
GradeFrom(items, answers, idx, count, shown) ==
    IF idx >= Len(items) THEN [correct_count |-> count, per_question |-> shown, raised |-> "none"]
    ELSE LET question_data == items[idx + 1]
             u == UserAnswer(answers, idx)
             c == Subscript(question_data, "correct_answer")
             o == Subscript(question_data, "options")
             a == ListIndex(o.val, c.val)
             hit == AnswerMatches(u.val, a.val, o.val, c.val)
         IN  IF ~u.ok THEN [correct_count |-> count, per_question |-> shown, raised |-> u.exc]
             ELSE IF ~c.ok THEN [correct_count |-> count, per_question |-> shown, raised |-> c.exc]
             ELSE IF ~o.ok THEN [correct_count |-> count, per_question |-> shown, raised |-> o.exc]
             ELSE IF ~a.ok THEN [correct_count |-> count, per_question |-> shown, raised |-> a.exc]
             ELSE GradeFrom(items, answers, idx + 1, IF hit THEN count + 1 ELSE count,
                            Append(shown, Verdict(idx, question_data, hit, a.val)))

\* A count that goes on from the previous grading.
InitialCountKept(previous) == previous
\* correct_count = 0 before the loop.
InitialCount(previous) == 0

\* The grading of a submitted form.
Grade(data, answers, previous) ==
    GradeFrom(Enumerate(data).items, answers, 0, InitialCount(previous), <<>>)

(***************************************************************************)
(* display_enhanced_summary.  The text of a difficulty is a sequence of    *)
(* characters, so that str.lower() is computed.                            *)
(***************************************************************************)
Uppercase ==
    <<"A", "B", "C", "D", "E", "F", "G", "H", "I", "J", "K", "L", "M",
      "N", "O", "P", "Q", "R", "S", "T", "U", "V", "W", "X", "Y", "Z">>
Lowercase ==
    <<"a", "b", "c", "d", "e", "f", "g", "h", "i", "j", "k", "l", "m",
      "n", "o", "p", "q", "r", "s", "t", "u", "v", "w", "x", "y", "z">>
LowerChar(c) ==
    IF \E i \in DOMAIN Uppercase : Uppercase[i] = c
    THEN Lowercase[CHOOSE i \in DOMAIN Uppercase : Uppercase[i] = c]
    ELSE c
\* str.lower()
str_lower(text) == [i \in 1..Len(text) |-> LowerChar(text[i])]

Levels ==
    [easy |-> <<"e", "a", "s", "y">>, medium |-> <<"m", "e", "d", "i", "u", "m">>,
     hard |-> <<"h", "a", "r", "d">>]
Medium == <<"M", "e", "d", "i", "u", "m">>
Difficulties ==
    {Absent, PyNone, PyStr(Medium), PyStr(Levels.medium),
     PyStr(<<"M", "E", "D", "I", "U", "M">>), PyStr(<<"E", "a", "s", "y">>),
     PyStr(Levels.easy), PyStr(<<"H", "a", "r", "d">>), PyStr(<<"H", "A", "R", "D">>),
     PyStr(<<"E", "x", "p", "e", "r", "t">>)}
KeySkills == {Absent, EmptyList, PyList(<<PyStr("loops"), PyStr("recursion")>>)}

\* A summary record: a dict with the keys that are not Absent.
MkSummary(s, k, d, e) ==
    LET f == [summary |-> s, key_skills |-> k, difficulty |-> d, estimated_time |-> e]
    IN  PyDict([key \in {m \in DOMAIN f : f[m] # Absent} |-> f[key]])
SummaryRecords ==
    {MkSummary(s, k, d, e) : s \in {Absent, PyStr("text")}, k \in KeySkills,
                             d \in Difficulties, e \in {Absent, PyInt(30)}}

\* What the view put on the page before it returned or raised.
SummaryView(sections, skills, highlighted, exc) ==
    [view |-> "summary", sections |-> sections, skills |-> skills,
     highlighted |-> highlighted, raised |-> exc]

\* The mutant of Difficulty: the text is compared as it was written.
DifficultyAsWritten(summary_data) ==
    LET d == DictGet(summary_data, "difficulty", PyStr(Medium)) IN
    IF d.tg # "str" THEN [ok |-> FALSE, val |-> <<>>, exc |-> "AttributeError"]
    ELSE [ok |-> TRUE, val |-> d.vl, exc |-> "none"]

\* summary_data.get('difficulty', 'Medium').lower(): [ok, val, exc].
Difficulty(summary_data) ==
    LET d == DictGet(summary_data, "difficulty", PyStr(Medium)) IN
    IF d.tg # "str" THEN [ok |-> FALSE, val |-> <<>>, exc |-> "AttributeError"]
    ELSE [ok |-> TRUE, val |-> str_lower(d.vl), exc |-> "none"]

\* The levels drawn with the class 'highlight'.
Highlight(difficulty) == {level \in DOMAIN Levels : difficulty = Levels[level]}

display_enhanced_summary(summary_data) ==
    LET s == Subscript(summary_data, "summary")
        k == Subscript(summary_data, "key_skills")
        d == Difficulty(summary_data)
        e == Subscript(summary_data, "estimated_time")
    IN  IF ~s.ok THEN SummaryView(<<>>, <<>>, {}, s.exc)
        ELSE IF ~k.ok THEN SummaryView(<<"summary">>, <<>>, {}, k.exc)
        ELSE IF k.val.tg # "list" THEN SummaryView(<<"summary">>, <<>>, {}, "TypeError")
        ELSE IF ~d.ok THEN SummaryView(<<"summary", "key_skills">>, k.val.vl, {}, d.exc)
        ELSE IF ~e.ok
             THEN SummaryView(<<"summary", "key_skills", "difficulty">>, k.val.vl,
                              Highlight(d.val), e.exc)
        ELSE SummaryView(<<"summary", "key_skills", "difficulty", "estimated_time">>,
                         k.val.vl, Highlight(d.val), "none")

(***************************************************************************)
(* display_coding_question_with_answer.                                    *)
(***************************************************************************)
TestCase == PyDict([input |-> PyStr("2"), output |-> PyStr("4")])
\* A coding question record: a dict with the keys that are not Absent.
MkCoding(q, c, t, s, e) ==
    LET f == [question |-> q, starter_code |-> c, test_cases |-> t, solution |-> s,
              explanation |-> e]
    IN  PyDict([key \in {m \in DOMAIN f : f[m] # Absent} |-> f[key]])
CodingRecords ==
    {MkCoding(q, c, t, s, e) :
        q \in {Absent, PyStr("Double n")},
        c \in {Absent, PyStr(""), PyStr("def solution(n):")},
        t \in {Absent, EmptyList, PyList(<<TestCase>>)},
        s \in {Absent, PyStr("return n * 2")},
        e \in Explanations}

\* bool(v) of a text, a list or None.
Truthy(v) ==
    CASE v.tg = "str" -> v.vl # ""
      [] v.tg = "list" -> v.vl # <<>>
      [] v.tg = "null" -> FALSE
      [] OTHER -> TRUE

\* question_data[key] where the view draws it, PyNone where it does not.
DrawnIf(condition, question_data, key) ==
    IF condition /\ key \in DOMAIN question_data.vl THEN question_data.vl[key] ELSE PyNone

display_coding_question_with_answer(question_data, show_explanation) ==
    LET q == Subscript(question_data, "question") IN
    IF ~q.ok
    THEN [view |-> "coding", show_explanation |-> show_explanation, question |-> PyNone,
          starter_code |-> PyNone, test_cases |-> PyNone, solution |-> PyNone,
          explanation |-> PyNone, raised |-> q.exc]
    ELSE [view |-> "coding", show_explanation |-> show_explanation, question |-> q.val,
          starter_code |->
              DrawnIf(Truthy(DictGet(question_data, "starter_code", PyNone)),
                      question_data, "starter_code"),
          test_cases |->
              DrawnIf(Truthy(DictGet(question_data, "test_cases", PyNone)),
                      question_data, "test_cases"),
          solution |-> DrawnIf(show_explanation, question_data, "solution"),
          explanation |-> DrawnIf(show_explanation, question_data, "explanation"),
          raised |-> "none"]

(***************************************************************************)
(* pages/ocr.py: perform_ocr and perform_image_question.  A question is a  *)
(* sequence of characters; the provider's side of a request is its         *)
(* outcome.                                                                *)
(***************************************************************************)
Whitespace == {" ", "\t", "\n"}
RECURSIVE lstrip(_)
lstrip(text) ==
    IF text # <<>> /\ Head(text) \in Whitespace THEN lstrip(Tail(text)) ELSE text
RECURSIVE rstrip(_)
rstrip(text) ==
    IF text # <<>> /\ text[Len(text)] \in Whitespace
    THEN rstrip(SubSeq(text, 1, Len(text) - 1))
    ELSE text
\* str.strip()
strip(text) == rstrip(lstrip(text))

Questions == {<<>>, <<" ", "\n">>, <<" ", "W", "h", "y", "?">>}
\* A PIL image, a URL, a local file, a path to no file, and a value that is
\* neither a str nor an image.
FileInputs == {"image", "url", "path", "missing_path", "bytes"}
VisionModels == {"free", "Llama-3.2-11B-Vision", "Llama-3.2-90B-Vision"}
OcrKeys == {PyNone, PyStr(""), PyStr("tg-test")}
\* What becomes of a request: an answer, a bad status, no connection, a body
\* that is not JSON, a JSON body without choices.
Outcomes == {"ok", "http_error", "connection_error", "not_json", "no_choices"}
\* A request without a key is answered with a bad status, if it is answered.
OutcomesFor(api_key) ==
    IF Truthy(api_key) THEN Outcomes ELSE {"http_error", "connection_error"}

vision_llm(model) ==
    IF model = "free" THEN <<"meta-llama/Llama-Vision-Free">>
    ELSE <<"meta-llama/", model, "-Instruct-Turbo">>

\* final_image_url: [ok, val, exc].
final_image_url(file_input) ==
    CASE file_input = "image" -> [ok |-> TRUE, val |-> "data:image/jpeg;base64", exc |-> "none"]
      [] file_input = "url" -> [ok |-> TRUE, val |-> "url", exc |-> "none"]
      [] file_input = "path" -> [ok |-> TRUE, val |-> "data:image/jpeg;base64", exc |-> "none"]
      [] file_input = "missing_path" -> [ok |-> FALSE, val |-> "", exc |-> "FileNotFoundError"]
      [] OTHER -> [ok |-> FALSE, val |-> "", exc |-> "ValueError"]

Request(model, url, api_key, text) ==
    [model |-> vision_llm(model), image_url |-> url, authorization |-> <<"Bearer", api_key>>,
     text |-> text]

\* The result of a call: what it returned, showed and raised, and the
\* requests it posted.
Sent(requests, x, shown, exc) ==
    [ret |-> x, reported |-> shown, raised |-> exc, requests |-> requests]

\* The mutant of Post: a failed request is posted once more.
PostTwice(request, outcome) ==
    CASE outcome = "ok" -> Sent(<<request>>, PyStr("content"), <<>>, "none")
      [] outcome = "http_error" ->
            Sent(<<request, request>>, PyStr(""), <<"HTTP error occurred">>, "none")
      [] OTHER -> Sent(<<request, request>>, PyStr(""), <<"An error occurred">>, "none")

\* The try block that ends both functions: one requests.post, and either
\* the content of the first choice or st.error and "".
Post(request, outcome) ==
    CASE outcome = "ok" -> Sent(<<request>>, PyStr("content"), <<>>, "none")
      [] outcome = "http_error" ->
            Sent(<<request>>, PyStr(""), <<"HTTP error occurred">>, "none")
      [] OTHER -> Sent(<<request>>, PyStr(""), <<"An error occurred">>, "none")

perform_ocr(file_input, api_key, model, outcome) ==
    LET url == final_image_url(file_input) IN
    IF ~url.ok THEN Sent(<<>>, PyNone, <<>>, url.exc)
    ELSE Post(Request(model, url.val, api_key, <<"system_prompt">>), outcome)

perform_image_question(file_input, api_key, model, question, outcome) ==
    LET url == final_image_url(file_input) IN
    IF strip(question) = <<>> THEN Sent(<<>>, PyNone, <<>>, "ValueError")
    ELSE IF ~url.ok THEN Sent(<<>>, PyNone, <<>>, url.exc)
    ELSE Post(Request(model, url.val, api_key, <<"system_prompt", question>>), outcome)

(***************************************************************************)
(* pages/Settings.py: the settings record, its file and the page's         *)
(* widgets.  An optional value is <<>> or <<v>>; the temperature is in     *)
(* tenths.                                                                 *)
(***************************************************************************)
ApiKeys == {"", "sk-test"}
TogetherKeys == {"", "tg-test"}
MistralKeys == {"", "ms-test"}
ModelOptions ==
    <<"gpt4-o-mini", "gpt-3.5-turbo", "mistral-medium", "mistral-small", "together-ai-model">>
ThemeOptions == <<"light", "dark">>
Temperatures == {3, 7}
Unset == "<unset>"

DefaultApiKeys == [openai |-> "", mistral |-> "", together |-> ""]
DefaultModelPreferences ==
    [default_model |-> "gpt4-o-mini", temperature |-> 7, max_tokens |-> 2000]
DefaultUiPreferences == [theme |-> "light", show_explanations |-> TRUE]
DefaultSettings ==
    [api_keys |-> DefaultApiKeys, model_preferences |-> DefaultModelPreferences,
     ui_preferences |-> DefaultUiPreferences]

WithSection(s, name, section) ==
    [k \in (DOMAIN s) \cup {name} |-> IF k = name THEN section ELSE s[k]]

\* The models the user picks from: the first MaxModels options.
ModelChoices == {ModelOptions[i] : i \in 1..MaxModels}

\* Settings a user saved: nothing in them is the default.
SavedSettings ==
    [api_keys |-> [openai |-> "sk-test", mistral |-> "ms-test", together |-> "tg-test"],
     model_preferences |->
        [default_model |-> "gpt-3.5-turbo", temperature |-> 3, max_tokens |-> 2000],
     ui_preferences |-> [theme |-> "dark", show_explanations |-> FALSE]]
\* s without the sections outside keep.
Sections(s, keep) == [k \in (DOMAIN s) \cap keep |-> s[k]]
\* settings.json: no file, the defaults, or settings saved with all or some
\* of their sections.
SettingsFiles ==
    {<<>>, <<DefaultSettings>>}
        \cup {<<Sections(SavedSettings, keep)>> : keep \in SUBSET DOMAIN SavedSettings}

\* The mutant of initialize_settings: the api_keys section is not ensured.
InitializeWithoutApiKeys(session, file) ==
    LET loaded == IF session # <<>> THEN session[1]
                  ELSE IF file # <<>> THEN file[1] ELSE DefaultSettings
        m == IF "model_preferences" \in DOMAIN loaded THEN loaded
             ELSE WithSection(loaded, "model_preferences", DefaultModelPreferences)
    IN  IF "ui_preferences" \in DOMAIN m THEN m
        ELSE WithSection(m, "ui_preferences", DefaultUiPreferences)

\* The settings of the session after initialize_settings().
initialize_settings(session, file) ==
    LET loaded == IF session # <<>> THEN session[1]
                  ELSE IF file # <<>> THEN file[1] ELSE DefaultSettings
        m == IF "model_preferences" \in DOMAIN loaded THEN loaded
             ELSE WithSection(loaded, "model_preferences", DefaultModelPreferences)
        u == IF "ui_preferences" \in DOMAIN m THEN m
             ELSE WithSection(m, "ui_preferences", DefaultUiPreferences)
    IN  IF "api_keys" \in DOMAIN u THEN u
        ELSE WithSection(u, "api_keys", DefaultApiKeys)

\* What a widget returns in one run: the user's entry w = name, or what the
\* widget shows already.
Entered(name, w, v, shown) == IF w = name THEN v ELSE shown

\* A run of the page works on a record s of the session's settings, the
\* file, the three key entries of the session and the state of the model
\* select box; save_settings() writes the settings to the file.
Stored(s, section, key, got) ==
    LET changed_settings == [s.settings EXCEPT ![section][key] = got] IN
    [s EXCEPT !.settings = changed_settings, !.file = <<changed_settings>>]

OpenAIKeyInput(s, w, v) ==
    LET got == Entered("openai", w, v, s.settings["api_keys"]["openai"]) IN
    IF got # s.settings["api_keys"]["openai"]
    THEN [Stored(s, "api_keys", "openai", got) EXCEPT !.openai_api_key = got]
    ELSE s

TogetherKeyInput(s, w, v) ==
    LET got == Entered("together", w, v, s.settings["api_keys"]["together"]) IN
    IF got # s.settings["api_keys"]["together"]
    THEN [Stored(s, "api_keys", "together", got) EXCEPT !.together_api_key = got]
    ELSE s

MistralKeyInput(s, w, v) ==
    LET got == Entered("mistral", w, v, s.settings["api_keys"]["mistral"]) IN
    IF got # s.settings["api_keys"]["mistral"]
    THEN [Stored(s, "api_keys", "mistral", got) EXCEPT !.mistral_api_key = got]
    ELSE s

\* index=0: a select box drawn for the first time shows the first option;
\* drawn again in the next run of the page it shows what it showed.
DefaultModelShown(s) == IF s.widget # <<>> THEN s.widget[1] ELSE ModelOptions[1]

DefaultModelSelect(s, w, v) ==
    LET got == Entered("default_model", w, v, DefaultModelShown(s))
        t == [s EXCEPT !.widget = <<got>>]
    IN  IF got # s.settings["model_preferences"]["default_model"]
        THEN Stored(t, "model_preferences", "default_model", got)
        ELSE t

TemperatureSlider(s, w, v) ==
    LET got == Entered("temperature", w, v, s.settings["model_preferences"]["temperature"]) IN
    IF got # s.settings["model_preferences"]["temperature"]
    THEN Stored(s, "model_preferences", "temperature", got)
    ELSE s

ThemeSelect(s, w, v) ==
    LET index == IF s.settings["ui_preferences"]["theme"] = "light" THEN 0 ELSE 1
        got == Entered("theme", w, v, ThemeOptions[index + 1])
    IN  IF got # s.settings["ui_preferences"]["theme"]
        THEN Stored(s, "ui_preferences", "theme", got)
        ELSE s

ShowExplanationsToggle(s, w, v) ==
    LET got == Entered("show_explanations", w, v,
                       s.settings["ui_preferences"]["show_explanations"]) IN
    IF got # s.settings["ui_preferences"]["show_explanations"]
    THEN Stored(s, "ui_preferences", "show_explanations", got)
    ELSE s

\* 'Reset to Default Settings', up to st.rerun().
ResetButton(s) == [s EXCEPT !.settings = DefaultSettings, !.file = <<DefaultSettings>>]

\* The widgets of the page from top to bottom, after initialize_settings().
SettingsWidgets(s, w, v) ==
    ShowExplanationsToggle(
        ThemeSelect(
            TemperatureSlider(
                DefaultModelSelect(
                    MistralKeyInput(
                        TogetherKeyInput(
                            OpenAIKeyInput(s, w, v), w, v), w, v), w, v), w, v), w, v), w, v)

\* One run of Settings.py with the entry (w, v), w = "none": no entry,
\* w = "reset": the button, whose st.rerun() starts the page again.
SettingsRun(s, w, v) ==
    LET started == [s EXCEPT !.settings = initialize_settings(s.settings, s.file)]
        drawn == SettingsWidgets(started, w, v)
    IN  IF w = "reset" THEN SettingsWidgets(ResetButton(drawn), "none", v) ELSE drawn

(***************************************************************************)
(* The session.                                                            *)
(***************************************************************************)

VARIABLES
    openai_api_key,    \* st.session_state.openai_api_key, or Unset
    together_api_key,  \* st.session_state.together_api_key, or Unset
    mistral_api_key,   \* st.session_state.mistral_api_key, or Unset
    settings,          \* st.session_state.settings, <<>>: not in the session
    settings_file,     \* the content of settings.json, <<>>: no file
    default_model_widget, \* what the model select box shows, <<>>: not drawn
    page,              \* what a view other than the quiz form put on the page
    requests_sent,     \* the requests the latest run posted to the provider
    op,                \* the operation of the latest script run
    arg,               \* its input: the raw response or the provider's reply
    ret,               \* the value it returned
    reported,          \* the diagnostics it showed with st.error
    raised,            \* the exception that left it uncaught, or "none"
    quiz_data,         \* the quiz the form was called with
    selected_answers,  \* idx -> the option chosen on the radio of question idx
    form_ready,        \* the submit button of the form is on the page
    changed,           \* a radio was changed since the form last ran
    regraded,          \* the latest grading followed another of the same answers
    correct_count,     \* of the latest grading
    total_questions,   \* of the latest grading
    per_question,      \* the verdicts the latest grading showed
    score_shown        \* the latest grading reached the score line

vars == <<openai_api_key, together_api_key, mistral_api_key, settings, settings_file,
          default_model_widget, page, requests_sent, op, arg, ret, reported, raised, quiz_data,
          selected_answers, form_ready, changed, regraded, correct_count, total_questions,
          per_question, score_shown>>
keys == <<openai_api_key, together_api_key, mistral_api_key, settings, settings_file>>
aside == <<page, requests_sent>>
call == <<op, arg, ret, reported, raised>>
form == <<quiz_data, selected_answers, form_ready, changed, regraded>>
score == <<correct_count, total_questions, per_question, score_shown>>

\* A script run that does not call the quiz form leaves no form on the page.
NoForm ==
    /\ quiz_data' = PyNone
    /\ selected_answers' = <<>>
    /\ form_ready' = FALSE
    /\ changed' = FALSE
    /\ regraded' = FALSE
    /\ correct_count' = 0
    /\ total_questions' = 0
    /\ per_question' = <<>>
    /\ score_shown' = FALSE

Call(name, input, r) ==
    /\ op' = name
    /\ arg' = input
    /\ ret' = r.ret
    /\ reported' = r.reported
    /\ raised' = r.raised

NoPage == [view |-> "none"]

\* A run of another page than Settings.py: the select box is not drawn.
OtherPage ==
    /\ default_model_widget' = <<>>
    /\ page' = NoPage
    /\ requests_sent' = <<>>

\* A new session; the quiz, the page and the call of the latest run are
\* empty.
Fresh ==
    /\ openai_api_key = Unset
    /\ together_api_key = Unset
    /\ mistral_api_key = Unset
    /\ settings = <<>>
    /\ default_model_widget = <<>>
    /\ page = NoPage
    /\ requests_sent = <<>>
    /\ op = "none"
    /\ arg = PyNone
    /\ ret = PyNone
    /\ reported = <<>>
    /\ raised = "none"
    /\ quiz_data = PyNone
    /\ selected_answers = <<>>
    /\ form_ready = FALSE
    /\ changed = FALSE
    /\ regraded = FALSE
    /\ correct_count = 0
    /\ total_questions = 0
    /\ per_question = <<>>
    /\ score_shown = FALSE

\* A new session in a directory without settings.json.
Init ==
    /\ Fresh
    /\ settings_file = <<>>

\* A new request starts from the home page or the settings page.
AtMenu == op \in {"none", "home", "settings"}

\* Home.py without an upload: the key is taken from the settings.
HomePage ==
    /\ openai_api_key' = IF settings # <<>> /\ "api_keys" \in DOMAIN settings[1]
                         THEN settings[1]["api_keys"]["openai"]
                         ELSE openai_api_key
    /\ UNCHANGED <<together_api_key, mistral_api_key, settings, settings_file>>
    /\ Call("home", PyNone, Returned(PyNone))
    /\ NoForm
    /\ OtherPage

\* What the widget of settings[section][key] shows when the page starts.
Shown(section, key) == initialize_settings(settings, settings_file)[section][key]

\* Settings.py run with the entry (w, v).
SettingsEntry(w, v) ==
    LET r == SettingsRun([settings |-> settings, file |-> settings_file,
                          openai_api_key |-> openai_api_key,
                          together_api_key |-> together_api_key,
                          mistral_api_key |-> mistral_api_key,
                          widget |-> default_model_widget], w, v)
    IN  /\ settings' = <<r.settings>>
        /\ settings_file' = r.file
        /\ openai_api_key' = r.openai_api_key
        /\ together_api_key' = r.together_api_key
        /\ mistral_api_key' = r.mistral_api_key
        /\ default_model_widget' = r.widget
        /\ Call("settings", PyStr(w), Returned(PyNone))
        /\ NoForm
        /\ UNCHANGED aside

\* Settings.py: an OpenAI key typed into the text input.
SettingsPage ==
    \E typed \in ApiKeys \ {""} :
        /\ typed # Shown("api_keys", "openai")
        /\ SettingsEntry("openai", typed)

ParseQuizResponse ==
    \E raw \in RawResponses :
        /\ AtMenu
        /\ Call("parse_quiz_response", raw, parse_quiz_response(raw))
        /\ NoForm
        /\ OtherPage
        /\ UNCHANGED keys

\* get_openai_client without a key: st.error, then st.stop ends the run.
NoKey(name) ==
    /\ openai_api_key \in {Unset, ""}
    /\ Call(name, PyNone, [ret |-> PyNone, reported |-> <<"Please enter your OpenAI API key">>,
                           raised |-> "stop"])

GenerateSummary ==
    /\ AtMenu
    /\ \/ NoKey("generate_summary")
       \/ /\ openai_api_key \notin {Unset, ""}
          /\ \E content \in ReplyTexts :
                Call("generate_summary", PyText(content), generate_summary(content))
    /\ NoForm
    /\ OtherPage
    /\ UNCHANGED keys

GenerateQuiz ==
    /\ AtMenu
    /\ \/ NoKey("generate_quiz")
       \/ /\ openai_api_key \notin {Unset, ""}
          /\ \E content \in ReplyTexts :
                Call("generate_quiz", PyText(content), generate_quiz(content))
    /\ NoForm
    /\ OtherPage
    /\ UNCHANGED keys

GenerateCodingQuestions ==
    /\ AtMenu
    /\ \/ NoKey("generate_coding_questions")
       \/ /\ openai_api_key \notin {Unset, ""}
          /\ \E content \in ReplyTexts :
                Call("generate_coding_questions", PyText(content),
                     generate_coding_questions(content))
    /\ NoForm
    /\ OtherPage
    /\ UNCHANGED keys

\* The mutant of AfterForm: the form takes the explanation out of a record
\* once it has read it.
AfterFormPopped(data) ==
    IF data.tg # "list" THEN data
    ELSE PyList([i \in DOMAIN data.vl |->
            IF data.vl[i].tg # "dict" THEN data.vl[i]
            ELSE PyDict([key \in (DOMAIN data.vl[i].vl) \ {"explanation"} |->
                            data.vl[i].vl[key]])])

\* The quiz after a run of the form: the form reads quiz_data and each
\* question_data and assigns to neither.
AfterForm(data) == data

\* The first run of the form on the quiz a call returned: every radio is
\* drawn with index=None.
DisplayQuiz ==
    /\ op \in {"parse_quiz_response", "generate_quiz"}
    /\ raised = "none"
    /\ LET r == Render(ret) IN
        /\ quiz_data' = AfterForm(ret)
        /\ selected_answers' = [idx \in 0..(r.rendered - 1) |-> PyNone]
        /\ form_ready' = (r.raised = "none")
        /\ Call("display_quiz", PyNone, Raised(r.raised))
    /\ changed' = FALSE
    /\ regraded' = FALSE
    /\ correct_count' = 0
    /\ total_questions' = 0
    /\ per_question' = <<>>
    /\ score_shown' = FALSE
    /\ UNCHANGED <<keys, default_model_widget, aside>>

\* The user picks option k of the radio of question idx; nothing runs until
\* the form is submitted.
SelectAnswer ==
    /\ op \in {"display_quiz", "submit_quiz"}
    /\ \E idx \in DOMAIN selected_answers :
        LET options == quiz_data.vl[idx + 1].vl["options"].vl IN
        \E k \in DOMAIN options :
            /\ selected_answers[idx] # options[k]
            /\ selected_answers' = [selected_answers EXCEPT ![idx] = options[k]]
    /\ changed' = TRUE
    /\ UNCHANGED <<keys, default_model_widget, aside, call, quiz_data, form_ready, regraded,
                   score>>

\* 'Submit & Check Score': the form runs again with submitted = True.
SubmitQuiz ==
    /\ op \in {"display_quiz", "submit_quiz"}
    /\ form_ready
    /\ LET g == Grade(quiz_data, selected_answers, correct_count) IN
        /\ correct_count' = g.correct_count
        /\ total_questions' = Len(Enumerate(quiz_data).items)
        /\ per_question' = g.per_question
        /\ score_shown' = (g.raised = "none")
        /\ Call("submit_quiz", PyNone, Raised(g.raised))
    /\ changed' = FALSE
    /\ regraded' = (op = "submit_quiz" /\ ~changed)
    /\ quiz_data' = AfterForm(quiz_data)
    /\ UNCHANGED <<keys, default_model_widget, aside, selected_answers, form_ready>>

Next ==
    \/ HomePage
    \/ SettingsPage
    \/ ParseQuizResponse
    \/ GenerateSummary
    \/ GenerateQuiz
    \/ GenerateCodingQuestions
    \/ DisplayQuiz
    \/ SelectAnswer
    \/ SubmitQuiz

Spec == Init /\ [][Next]_vars

(***************************************************************************)
(* The summary of an uploaded document.                                    *)
(***************************************************************************)
\* Home.py shows the summary record of a document with
\* display_enhanced_summary.
DisplayEnhancedSummary ==
    \E summary_data \in SummaryRecords :
        LET shown == display_enhanced_summary(summary_data) IN
        /\ AtMenu
        /\ Call("display_enhanced_summary", summary_data, Raised(shown.raised))
        /\ page' = shown
        /\ default_model_widget' = <<>>
        /\ requests_sent' = <<>>
        /\ NoForm
        /\ UNCHANGED keys

NextSummary ==
    \/ HomePage
    \/ SettingsPage
    \/ DisplayEnhancedSummary

SpecSummary == Init /\ [][NextSummary]_vars

(***************************************************************************)
(* The explanations of the quiz form and of the coding questions.          *)
(***************************************************************************)
\* Settings.py: the 'Show Explanations' toggle is switched.
ShowExplanationsEntry ==
    \E switched \in BOOLEAN :
        /\ AtMenu
        /\ switched # Shown("ui_preferences", "show_explanations")
        /\ SettingsEntry("show_explanations", switched)

\* A coding question is shown with display_coding_question_with_answer.
DisplayCodingQuestion ==
    \E question_data \in CodingRecords, show_explanation \in BOOLEAN :
        LET shown == display_coding_question_with_answer(question_data, show_explanation) IN
        /\ AtMenu
        /\ Call("display_coding_question_with_answer", question_data, Raised(shown.raised))
        /\ page' = shown
        /\ default_model_widget' = <<>>
        /\ requests_sent' = <<>>
        /\ NoForm
        /\ UNCHANGED keys

NextExplain ==
    \/ HomePage
    \/ ShowExplanationsEntry
    \/ ParseQuizResponse
    \/ DisplayQuiz
    \/ SelectAnswer
    \/ SubmitQuiz
    \/ DisplayCodingQuestion

SpecExplain == Init /\ [][NextExplain]_vars

(***************************************************************************)
(* The calls of the vision provider.                                       *)
(***************************************************************************)
PerformOcr ==
    \E file_input \in FileInputs, api_key \in OcrKeys, model \in VisionModels :
        \E outcome \in OutcomesFor(api_key) :
            LET r == perform_ocr(file_input, api_key, model, outcome) IN
            /\ AtMenu
            /\ Call("perform_ocr",
                    [file_input |-> file_input, api_key |-> api_key, model |-> model,
                     outcome |-> outcome], r)
            /\ requests_sent' = r.requests
            /\ page' = NoPage
            /\ default_model_widget' = <<>>
            /\ NoForm
            /\ UNCHANGED keys

PerformImageQuestion ==
    \E file_input \in FileInputs, api_key \in OcrKeys, model \in VisionModels,
       question \in Questions :
        \E outcome \in OutcomesFor(api_key) :
            LET r == perform_image_question(file_input, api_key, model, question, outcome) IN
            /\ AtMenu
            /\ Call("perform_image_question",
                    [file_input |-> file_input, api_key |-> api_key, model |-> model,
                     question |-> question, outcome |-> outcome], r)
            /\ requests_sent' = r.requests
            /\ page' = NoPage
            /\ default_model_widget' = <<>>
            /\ NoForm
            /\ UNCHANGED keys

NextOcr ==
    \/ HomePage
    \/ PerformOcr
    \/ PerformImageQuestion

SpecOcr == Init /\ [][NextOcr]_vars

(***************************************************************************)
(* The settings page in a session that starts with any settings.json.      *)
(***************************************************************************)
InitSettings ==
    /\ Fresh
    /\ settings_file \in SettingsFiles

\* The page is opened.
SettingsLoad ==
    /\ op # "settings"
    /\ SettingsEntry("none", "")

\* An entry is made in a widget of the page on the screen.
OnSettings == op = "settings"

OpenAIKeyEntry ==
    \E typed \in ApiKeys :
        /\ OnSettings
        /\ typed # Shown("api_keys", "openai")
        /\ SettingsEntry("openai", typed)

TogetherKeyEntry ==
    \E typed \in TogetherKeys :
        /\ OnSettings
        /\ typed # Shown("api_keys", "together")
        /\ SettingsEntry("together", typed)

MistralKeyEntry ==
    \E typed \in MistralKeys :
        /\ OnSettings
        /\ typed # Shown("api_keys", "mistral")
        /\ SettingsEntry("mistral", typed)

DefaultModelEntry ==
    \E chosen \in ModelChoices :
        /\ OnSettings
        /\ chosen # (IF default_model_widget # <<>> THEN default_model_widget[1]
                     ELSE ModelOptions[1])
        /\ SettingsEntry("default_model", chosen)

TemperatureEntry ==
    \E moved \in Temperatures :
        /\ OnSettings
        /\ moved # Shown("model_preferences", "temperature")
        /\ SettingsEntry("temperature", moved)

ThemeEntry ==
    \E chosen \in {ThemeOptions[i] : i \in DOMAIN ThemeOptions} :
        /\ OnSettings
        /\ chosen # Shown("ui_preferences", "theme")
        /\ SettingsEntry("theme", chosen)

\* 'Reset to Default Settings' is pressed.
ResetSettings ==
    /\ OnSettings
    /\ SettingsEntry("reset", "")

NextSettings ==
    \/ HomePage
    \/ SettingsLoad
    \/ OpenAIKeyEntry
    \/ TogetherKeyEntry
    \/ MistralKeyEntry
    \/ DefaultModelEntry
    \/ TemperatureEntry
    \/ ThemeEntry
    \/ ShowExplanationsEntry
    \/ ResetSettings

SpecSettings == InitSettings /\ [][NextSettings]_vars

(***************************************************************************)
(* The terms of the claims.                                                *)
(***************************************************************************)
\* 'Array of 4 answer choices'.
NumOptions == 4

Field(r, key) == r.vl[key]
HasField(r, key) == r.tg = "dict" /\ key \in DOMAIN r.vl

QuestionOk(r) ==
    HasField(r, "question") /\ Field(r, "question").tg = "str" /\ Field(r, "question").vl # ""
OptionsOk(r) ==
    HasField(r, "options") /\ Field(r, "options").tg = "list"
        /\ Len(Field(r, "options").vl) = NumOptions
\* correct_answer is an integer within [0, len(options)).
InRange(r) ==
    /\ HasField(r, "options") /\ Field(r, "options").tg = "list"
    /\ HasField(r, "correct_answer") /\ Field(r, "correct_answer").tg = "int"
    /\ 0 <= Field(r, "correct_answer").vl
    /\ Field(r, "correct_answer").vl < Len(Field(r, "options").vl)

\* A record that passes the three checks of the Question Validator.
ValidQuestion(r) == QuestionOk(r) /\ OptionsOk(r) /\ InRange(r)
\* The error of the earliest check the record fails.
ValidationError(r) ==
    IF ~QuestionOk(r) THEN "MissingField(question)"
    ELSE IF ~OptionsOk(r) THEN "MalformedOptions"
    ELSE IF ~InRange(r) THEN "InvalidAnswerIndex"
    ELSE "none"

\* The form holds a list of valid questions.
AllValid ==
    quiz_data.tg = "list" /\ \A i \in DOMAIN quiz_data.vl : ValidQuestion(quiz_data.vl[i])
\* options[correct_answer] of a record whose index is in range.
CorrectText(r) == Field(r, "options").vl[Field(r, "correct_answer").vl + 1]
\* The latest run graded the answers now on the form.
Graded == op = "submit_quiz" /\ ~changed
Parsed == op = "parse_quiz_response"
GenerationCalls == {"generate_summary", "generate_quiz", "generate_coding_questions"}

(***************************************************************************)
(* C1.  parse_quiz_response gives the same list of question records for    *)
(* the JSON text of {"questions": [...]}, for the parsed object and for    *)
(* the bare list.                                                          *)
(***************************************************************************)
C1_SameCanonicalList ==
    Parsed =>
        LET doc == IF arg.tg = "text" THEN json_loads(arg.vl).val ELSE arg IN
        /\ (arg.tg = "list" => ret = arg)
        /\ (doc.tg = "dict" /\ "questions" \in DOMAIN doc.vl /\ doc.vl["questions"].tg = "list")
               => ret = doc.vl["questions"]

(***************************************************************************)
(* C2.  For a text that is not JSON, parse_quiz_response returns the empty *)
(* list, reports exactly one parse error and raises nothing.               *)
(***************************************************************************)
C2_MalformedTextYieldsEmpty ==
    (Parsed /\ arg.tg = "text" /\ arg.vl \in MalformedTexts) =>
        /\ ret = EmptyList
        /\ reported = <<"JSONDecodeError">>
        /\ raised = "none"

C2_Witness ==
    /\ Parsed
    /\ arg = PyText(CutShort(Dumps(QuestionsDoc(<<>>)), 1))
    /\ ret = EmptyList
    /\ Len(reported) = 1

(***************************************************************************)
(* C3.  A record whose correct_answer is outside [0, len(options)) never   *)
(* reaches the grading loop: the loop never subscripts options out of      *)
(* range and every record it scored has its index in range.                *)
(***************************************************************************)
C3_OutOfRangeNeverGraded ==
    op = "submit_quiz" =>
        /\ raised # "IndexError"
        /\ \A i \in DOMAIN per_question : InRange(quiz_data.vl[per_question[i].index + 1])

(***************************************************************************)
(* C4.  Grading a list of valid questions gives total = the number of      *)
(* questions and correct_count = the number of questions whose chosen      *)
(* option text equals the text options[correct_answer]; the texts are      *)
(* compared, so a duplicate of the correct text counts as correct.         *)
(***************************************************************************)
C4_ScoreCountsMatchingTexts ==
    (Graded /\ AllValid) =>
        /\ raised = "none"
        /\ score_shown
        /\ total_questions = Len(quiz_data.vl)
        /\ correct_count =
              Cardinality({idx \in DOMAIN selected_answers :
                              selected_answers[idx] = CorrectText(quiz_data.vl[idx + 1])})
        /\ \A i \in DOMAIN per_question :
              /\ per_question[i].index = i - 1
              /\ per_question[i].correct_option_text = CorrectText(quiz_data.vl[i])
              /\ per_question[i].is_correct = (selected_answers[i - 1] = CorrectText(quiz_data.vl[i]))

C4_Witness ==
    /\ Graded /\ AllValid
    /\ Len(quiz_data.vl) = 2
    /\ correct_count = 1
    /\ \E idx \in DOMAIN selected_answers :
          /\ Field(quiz_data.vl[idx + 1], "options").vl = OptionsDup
          /\ selected_answers[idx] = PyStr("4")
          /\ per_question[idx + 1].is_correct

(***************************************************************************)
(* C5.  A question with no answer chosen is counted as incorrect and is no *)
(* error: the count does not rise for it, the total counts it and the      *)
(* questions after it are graded.                                          *)
(***************************************************************************)
C5_UnansweredIsIncorrect ==
    (Graded /\ AllValid) =>
        /\ raised = "none"
        /\ total_questions = Len(quiz_data.vl)
        /\ Len(per_question) = Len(quiz_data.vl)
        /\ \A idx \in DOMAIN selected_answers :
              selected_answers[idx] = PyNone => ~per_question[idx + 1].is_correct
        /\ correct_count <=
              Cardinality({idx \in DOMAIN selected_answers : selected_answers[idx] # PyNone})

C5_Witness ==
    /\ Graded /\ AllValid
    /\ Len(quiz_data.vl) = 2
    /\ selected_answers[0] = PyNone
    /\ per_question[2].is_correct
    /\ correct_count = 1
    /\ total_questions = 2

C7_MalformedReplyRecovered ==
    (op \in GenerationCalls /\ arg.tg = "text" /\ arg.vl \in MalformedTexts) =>
        /\ raised = "none"
        /\ reported # <<>>

(***************************************************************************)
(* C8.  A raw response that is already a list is returned as it is, same   *)
(* records in the same order, and no error is reported.                    *)
(***************************************************************************)
C8_ListPassThrough ==
    (Parsed /\ arg.tg = "list") =>
        /\ ret = arg
        /\ reported = <<>>
        /\ raised = "none"

C8_Witness ==
    /\ Parsed
    /\ arg.tg = "list"
    /\ Len(arg.vl) = 2
    /\ arg.vl[1] # arg.vl[2]
    /\ ret = arg

(***************************************************************************)
(* C9.  For a raw response that is a dict the result is the value at key   *)
(* 'questions'; when the key is absent it is the empty list and no error   *)
(* is reported.                                                            *)
(***************************************************************************)
C9_DictYieldsQuestions ==
    (Parsed /\ arg.tg = "dict") =>
        /\ ret = IF "questions" \in DOMAIN arg.vl THEN arg.vl["questions"] ELSE EmptyList
        /\ reported = <<>>
        /\ raised = "none"

C9_Witness ==
    /\ Parsed
    /\ arg = SummaryDoc
    /\ ret = EmptyList
    /\ reported = <<>>

(***************************************************************************)
(* C10.  Each record is validated in a fixed order, stopping at the first  *)
(* failure: question present and non-empty (else MissingField), options a  *)
(* list of exactly 4 (else MalformedOptions), correct_answer an integer in *)
(* range (else InvalidAnswerIndex).  So the grading loop scores only valid *)
(* records, and the record it stops at is reported with the error of the   *)
(* earliest check that record fails.                                       *)
(***************************************************************************)
\* The validation error an exception of the form stands for.
SpecError(exc) ==
    CASE exc = "KeyError: 'question'" -> "MissingField(question)"
      [] exc = "KeyError: 'options'" -> "MalformedOptions"
      [] exc \in {"KeyError: 'correct_answer'", "IndexError", "TypeError"} -> "InvalidAnswerIndex"
      [] OTHER -> "none"

C10_ValidatedInOrder ==
    (op = "submit_quiz" /\ quiz_data.tg = "list") =>
        /\ \A i \in DOMAIN per_question : ValidationError(quiz_data.vl[i]) = "none"
        /\ raised # "none" =>
              SpecError(raised) = ValidationError(quiz_data.vl[Len(per_question) + 1])

(***************************************************************************)
(* The terms of the claims about the summary.                              *)
(***************************************************************************)
Summarized == op = "display_enhanced_summary"
HasKey(key) == key \in DOMAIN arg.vl
\* The record reaches the difficulty section: the two sections above it
\* are drawn.
ReachesDifficulty == HasKey("summary") /\ HasKey("key_skills")
\* The level the claims give a record: the one its difficulty names in any
\* letter case, Medium for every other record.
NamedLevels ==
    IF HasKey("difficulty") /\ arg.vl["difficulty"].tg = "str"
    THEN {level \in DOMAIN Levels : str_lower(arg.vl["difficulty"].vl) = Levels[level]}
    ELSE {}
ClaimedLevel == IF NamedLevels # {} THEN NamedLevels ELSE {"medium"}

(***************************************************************************)
(* C11.  A summary record without the key 'difficulty' is shown as Medium: *)
(* of the three levels, Medium and only Medium is highlighted.             *)
(***************************************************************************)
C11_MissingDifficultyIsMedium ==
    (Summarized /\ ReachesDifficulty /\ ~HasKey("difficulty")) =>
        /\ "difficulty" \in {page.sections[i] : i \in DOMAIN page.sections}
        /\ page.highlighted = {"medium"}

C11_Witness ==
    /\ Summarized
    /\ ~HasKey("difficulty")
    /\ HasKey("estimated_time")
    /\ page.highlighted = {"medium"}
    /\ raised = "none"

(***************************************************************************)
(* C12.  The difficulty is matched in any letter case, and every value     *)
(* that is not one of the three levels (an unknown text, or a null) is     *)
(* treated as Medium: exactly one level is highlighted for every record.   *)
(***************************************************************************)
C12_ExactlyOneLevel ==
    (Summarized /\ ReachesDifficulty) =>
        /\ Cardinality(page.highlighted) = 1
        /\ page.highlighted = ClaimedLevel

(***************************************************************************)
(* C13.  A summary record without the key 'key_skills' is shown with an    *)
(* empty list of skills and no error: the sections after it are drawn.     *)
(***************************************************************************)
C13_MissingSkillsIsEmptyList ==
    (Summarized /\ HasKey("summary") /\ ~HasKey("key_skills")) =>
        /\ page.skills = <<>>
        /\ raised # "KeyError"
        /\ "difficulty" \in {page.sections[i] : i \in DOMAIN page.sections}

(***************************************************************************)
(* C14.  An explanation is shown only when the record has one and the      *)
(* caller opted into explanations: in the grading view of the quiz form    *)
(* (the session's 'Show Explanations' preference) and in the view of a     *)
(* coding question (its show_explanation argument), nothing is shown       *)
(* without the opt-in, even for a record that carries an explanation.      *)
(***************************************************************************)
\* The session's preference, on until the user switches it off.
OptedIn == settings = <<>> \/ settings[1]["ui_preferences"]["show_explanations"]

C14_ExplanationOnlyIfOptedIn ==
    /\ op = "submit_quiz" =>
          \A i \in DOMAIN per_question :
              per_question[i].explanation # PyNone =>
                  (OptedIn /\ "explanation" \in DOMAIN quiz_data.vl[i].vl)
    /\ page.view = "coding" =>
          (page.explanation # PyNone =>
              (page.show_explanation /\ "explanation" \in DOMAIN arg.vl))

(***************************************************************************)
(* The terms of the claims about the vision provider.                      *)
(***************************************************************************)
VisionCall == op \in {"perform_ocr", "perform_image_question"}
Asked == op = "perform_image_question"
BlankQuestion == \A i \in DOMAIN arg.question : arg.question[i] \in Whitespace
\* The call had an image to send and, if it asks, a question.
Requested ==
    /\ VisionCall
    /\ arg.file_input \in {"image", "url", "path"}
    /\ Asked => ~BlankQuestion

C16_NoKeyOrQuestionIsValueError ==
    /\ (VisionCall /\ ~Truthy(arg.api_key)) =>
          (raised = "ValueError" /\ requests_sent = <<>>)
    /\ (Asked /\ BlankQuestion) =>
          (raised = "ValueError" /\ requests_sent = <<>>)

(***************************************************************************)
(* C17.  Question records are not mutated after construction: drawing the  *)
(* quiz form and grading a submission, any number of times, leave the      *)
(* sequence of records as it was (every record's question, options,        *)
(* correct_answer and explanation, and the order of the records).          *)
(***************************************************************************)
FormOps == {"display_quiz", "submit_quiz"}

C17_RecordsNotMutated ==
    [][/\ (op \notin FormOps /\ op' = "display_quiz") => quiz_data' = ret
       /\ (op \in FormOps /\ op' \in FormOps) => quiz_data' = quiz_data]_vars

C17_Witness ==
    /\ op = "submit_quiz"
    /\ regraded
    /\ quiz_data.tg = "list"
    /\ \E i \in DOMAIN quiz_data.vl : "explanation" \in DOMAIN quiz_data.vl[i].vl

(***************************************************************************)
(* C18.  Opening the Settings page in a new session, without any entry,    *)
(* changes neither the settings of the session (they are what the file     *)
(* held) nor the settings file: a saved default_model other than the first *)
(* option stays in effect.                                                 *)
(***************************************************************************)
C18_LoadChangesNothing ==
    [][(settings = <<>> /\ op' = "settings" /\ arg' = PyStr("none")) =>
          /\ settings_file' = settings_file
          /\ settings' = <<initialize_settings(<<>>, settings_file)>>]_vars

(***************************************************************************)
(* C19.  After any sequence of edits and resets on the Settings page and   *)
(* loads of the Home page, the session's openai_api_key equals             *)
(* settings.api_keys.openai whenever both exist: after a reset the key     *)
(* typed before is no longer the key the model client is built with.       *)
(***************************************************************************)
C19_ActiveKeyIsSettingsKey ==
    (settings # <<>> /\ openai_api_key # Unset) =>
        openai_api_key = settings[1]["api_keys"]["openai"]

(***************************************************************************)
(* C20.  After initialize_settings returns, whatever the session held      *)
(* before and whatever the settings file is (absent, complete, or lacking  *)
(* some sections), the session's settings have the three sections, each    *)
(* with every key the page reads, and the sections that were there are     *)
(* unchanged.                                                              *)
(***************************************************************************)
\* The keys the widgets of the page subscript.
PageKeys ==
    [api_keys |-> {"openai", "together", "mistral"},
     model_preferences |-> {"default_model", "temperature"},
     ui_preferences |-> {"theme", "show_explanations"}]
\* The settings the session or else the file held before the call.
Before ==
    IF settings # <<>> THEN settings[1]
    ELSE IF settings_file # <<>> THEN settings_file[1] ELSE <<>>

C20_InitializedSettingsComplete ==
    LET after == initialize_settings(settings, settings_file) IN
    /\ \A section \in DOMAIN PageKeys :
          /\ section \in DOMAIN after
          /\ PageKeys[section] \subseteq DOMAIN after[section]
    /\ \A section \in DOMAIN Before : after[section] = Before[section]

C20_Witness ==
    /\ op = "settings"
    /\ arg = PyStr("none")
    /\ settings_file # <<>>
    /\ "api_keys" \notin DOMAIN settings_file[1]
    /\ "ui_preferences" \in DOMAIN settings_file[1]
    /\ settings[1]["api_keys"] = DefaultApiKeys
    /\ settings[1]["ui_preferences"] = SavedSettings["ui_preferences"]
====
